---- MODULE Spec2Model ----
(***************************************************************************)
(* Model of the Tokushima University course-roadmap tool:                  *)
(*   src/src/services/dataService.ts      (DataService, the catalog store) *)
(*   src/src/services/geminiService.ts    (GeminiService, the AI client)   *)
(*   src/src/tokushima-roadmap-tool.tsx   (CourseRoadmapTool, the session) *)
(*                                                                         *)
(* Texts are sequences of lexemes.  A lexeme is a string standing for a    *)
(* run of characters of the reply:                                         *)
(*   "F"    a triple backtick            "j"   the word json               *)
(*   "s"    one whitespace character     "x"   one character of prose      *)
(*   "{" "}" braces                      "q"   a double quote              *)
(*   "k"    a member key with its colon, e.g. "reasoning":                 *)
(*   "n0" "n1" "n2"  the member "nodes":[...] with 0, 1, 2 nodes            *)
(*   "m"    the member "nodes":"text" (nodes present, not a list)          *)
(*   "c"    the members "career_relevance":{..},"career_relevance_reason"  *)
(*   "1"    a number literal             "null" the literal null           *)
(* JS values are records with a kind field, so that null, a number, an     *)
(* object and a list can be held by one variable.                          *)
(***************************************************************************)
EXTENDS Integers, Sequences, FiniteSets, Bags, TLC

\* ------------------------------------------------------------------ bounds
\* longest reply, in lexemes before Expand, that SpecParse enumerates
MaxLen == 4

\* ------------------------------------------------------- JS values (parse)
\* a JS value as produced by JSON.parse; kind "fail" stands for a thrown error
Val(kind, nodes, items, cr) ==
  [kind |-> kind, nodes |-> nodes, items |-> items, cr |-> cr]

ParseFail == Val("fail", "absent", <<>>, FALSE)

NullVal == Val("null", "absent", <<>>, FALSE)

NumberVal == Val("number", "absent", <<>>, FALSE)

EmptyObject == Val("object", "absent", <<>>, FALSE)

\* the node ids carried by a "nodes":[...] lexeme; "s9" is an id no catalog has
NodesOf(tok) ==
  CASE tok = "n0" -> <<>>
    [] tok = "n1" -> <<"s1">>
    [] tok = "n2" -> <<"s1", "s9">>
    [] OTHER -> <<>>

\* the object a single member lexeme yields
MemberVal(tok) ==
  CASE tok \in {"n0", "n1", "n2"} -> Val("object", "list", NodesOf(tok), FALSE)
    [] tok = "m" -> Val("object", "nonlist", <<>>, FALSE)
    [] tok = "c" -> Val("object", "absent", <<>>, TRUE)
    [] OTHER -> ParseFail

\* ------------------------------------------------------------ JSON.parse
RECURSIVE StripLeft(_)
StripLeft(t) ==
  IF t # <<>> /\ Head(t) = "s" THEN StripLeft(Tail(t)) ELSE t

RECURSIVE StripRight(_)
StripRight(t) ==
  IF t # <<>> /\ t[Len(t)] = "s" THEN StripRight(SubSeq(t, 1, Len(t) - 1)) ELSE t

Strip(t) == StripRight(StripLeft(t))

\* a string literal: a quote, any characters but a quote, a quote
IsStringLiteral(t) ==
  /\ Len(t) >= 2
  /\ t[1] = "q"
  /\ t[Len(t)] = "q"
  /\ \A i \in 2..(Len(t) - 1) : t[i] # "q"

\* a member "key": "string"
IsStringMember(t) ==
  /\ t # <<>>
  /\ Head(t) = "k"
  /\ IsStringLiteral(StripLeft(Tail(t)))

\* the members between the braces of an object (at most one member)
ParseMembers(inner) ==
  CASE inner = <<>> -> EmptyObject
    [] Len(inner) = 1 -> MemberVal(inner[1])
    [] OTHER -> IF IsStringMember(inner) THEN EmptyObject ELSE ParseFail

\* JSON.parse(text): whitespace around one value; a throw is ParseFail
JSONparse(text) ==
  LET t == Strip(text) IN
  CASE t = <<"null">> -> NullVal
    [] t = <<"1">> -> NumberVal
    [] Len(t) >= 2 /\ t[1] = "{" /\ t[Len(t)] = "}" ->
         ParseMembers(Strip(SubSeq(t, 2, Len(t) - 1)))
    [] OTHER -> ParseFail

\* ------------------------------------------------- the two regular expressions
\* the position after an optional "json" tag at p
AfterTag(text, p) ==
  IF p <= Len(text) /\ text[p] = "j" THEN p + 1 ELSE p

\* the position after the whitespace run starting at p
RECURSIVE SkipWs(_, _)
SkipWs(text, p) ==
  IF p <= Len(text) /\ text[p] = "s" THEN SkipWs(text, p + 1) ELSE p

\* a closing brace at e followed by \s* and a triple backtick
ClosesFence(text, e) ==
  /\ e <= Len(text)
  /\ text[e] = "}"
  /\ LET p == SkipWs(text, e + 1) IN p <= Len(text) /\ text[p] = "F"

\* the ends the lazy group can take when the fence opens at i
FenceEnds(text, i) ==
  LET b == SkipWs(text, AfterTag(text, i + 1)) IN
  IF text[i] = "F" /\ b <= Len(text) /\ text[b] = "{"
  THEN {e \in (b + 1)..Len(text) : ClosesFence(text, e)}
  ELSE {}

Min(S) == CHOOSE a \in S : \A b \in S : a <= b

Max(S) == CHOOSE a \in S : \A b \in S : a >= b

\* the triple backticks at which /```(?:json)?\s*(\{[\s\S]*?\})\s*```/ matches
FenceStarts(text) == {i \in 1..Len(text) : FenceEnds(text, i) # {}}

\* text.match(/```(?:json)?\s*(\{[\s\S]*?\})\s*```/)
HasFence(text) == FenceStarts(text) # {}

\* jsonMatch[1]: leftmost match, shortest group
FenceGroup(text) ==
  LET i == Min(FenceStarts(text))
      b == SkipWs(text, AfterTag(text, i + 1))
  IN SubSeq(text, b, Min(FenceEnds(text, i)))

OpenBraces(text) == {i \in 1..Len(text) : text[i] = "{"}

CloseBraces(text) == {i \in 1..Len(text) : text[i] = "}"}

\* text.match(/\{[\s\S]*\}/)
HasObjectSpan(text) ==
  /\ OpenBraces(text) # {}
  /\ CloseBraces(text) # {}
  /\ Max(CloseBraces(text)) > Min(OpenBraces(text))

\* jsonObjectMatch[0]: from the first opening brace to the last closing brace
ObjectSpan(text) ==
  SubSeq(text, Min(OpenBraces(text)), Max(CloseBraces(text)))

\* ------------------------------------------------------ parseJSONResponse
\* variant: a fence whose content does not parse falls through to the span
parseJSONResponseFallThrough(text) ==
  LET whole == JSONparse(text)
      fence == IF HasFence(text) THEN JSONparse(FenceGroup(text)) ELSE ParseFail
  IN
  IF whole # ParseFail THEN whole
  ELSE IF fence # ParseFail THEN fence
  ELSE IF HasObjectSpan(text) THEN JSONparse(ObjectSpan(text))
  ELSE ParseFail

parseJSONResponse(text) ==
  LET whole == JSONparse(text) IN
  IF whole # ParseFail THEN whole
  ELSE IF HasFence(text) THEN JSONparse(FenceGroup(text))
  ELSE IF HasObjectSpan(text) THEN JSONparse(ObjectSpan(text))
  ELSE ParseFail


\* ------------------------------------------------------------ more bounds
\* most subjects a catalog document lists
MaxSubjects == 1

\* most generation requests awaiting the AI reply at once
MaxInFlight == 2

\* most pending setTimeout callbacks of the sample-occupation buttons
MaxTimers == 1

\* ---------------------------------------------------------------- state
VARIABLES
  apiKey,           \* process.env.REACT_APP_GEMINI_API_KEY is set
  catalog,          \* what fetch('/syllabus.json') will produce
  dsSubjects,       \* DataService.subjects
  dsIsLoading,      \* DataService.isLoading
  dsIsLoaded,       \* DataService.isLoaded
  loadPromise,      \* DataService.loadPromise: "pending" or "resolved"
  dsPc,             \* position of DataService.loadSubjects
  fetchCount,       \* number of fetch('/syllabus.json') calls issued
  callers,          \* other callers of getAllSubjects: pc, value received, and
                    \* whether the call was made before the load ended (history)
  dreamOccupation,  \* useState('')
  roadmap,          \* useState<GeneratedRoadmap | null>(null)
  isLoading,        \* useState(false)
  isLoadingData,    \* useState(true)
  error,            \* useState<string | null>(null)
  subjects,         \* useState<Subject[]>([])
  selectedSubject,  \* useState<Subject | null>(null)
  selectedNodeId,   \* useState<string | null>(null)
  loadPc,           \* position of the mount effect's loadSubjects
  enriched,         \* enrichedSubjects of the running enrichment
  inflight,         \* bag of generation requests awaiting the AI reply, each known
                    \* by the roadmap held when it was started (history)
  timers,           \* bag of pending setTimeout callbacks, each its closure
  text,             \* the reply text given to the interpreter
  parsed,           \* the interpreter's result for text
  roadmapNodes,     \* roadmap.nodes as given to RoadmapFlowchart
  nodePositions,    \* nodePositions of the last render of RoadmapFlowchart
  prevPositions,    \* nodePositions of the render before it (history)
  drawn,            \* how the last render of RoadmapFlowchart ended, its edges
  flowPc,           \* position of the flowchart: new, rendered, reordered
  filterArgs,       \* loaded subjects, occupation and threshold of a filter call
  filterResult,     \* what getSubjectsByCareerRelevance returned
  enrichArgs,       \* subjects given to an enrichment function, and which one
  enrichResult,     \* enrichedSubjects, the AI calls made, the failures (history)
  last              \* history: the step just taken and the state before it

dsVars == <<dsSubjects, dsIsLoading, dsIsLoaded, loadPromise, dsPc, fetchCount>>

uiVars == <<dreamOccupation, roadmap, isLoading, isLoadingData, error, subjects,
            selectedSubject, selectedNodeId>>

flowVars == <<roadmapNodes, nodePositions, prevPositions, drawn, flowPc>>

filterVars == <<filterArgs, filterResult>>

enrichVars == <<enrichArgs, enrichResult>>

pureVars == <<flowVars, filterVars, enrichVars>>

parseVars == <<text, parsed, pureVars>>

vars == <<apiKey, catalog, dsVars, callers, uiVars, loadPc, enriched, inflight,
          timers, parseVars, last>>

\* ------------------------------------------------------------- constants
\* null of a string-valued state (error, selectedNodeId)
Null == "null"

PleaseWait == "Please wait for syllabus data to finish loading."

ErrNoKey == "Failed to generate roadmap: Gemini API key not configured"

ErrNoSubjects == "Failed to generate roadmap: No subjects available. Please check if syllabus data is loading correctly."

ErrService == "Failed to generate roadmap: Failed to generate roadmap"

ErrInvalid == "Failed to generate roadmap: Invalid roadmap data received from AI"

ErrLoad == "Failed to load syllabus data"

\* ------------------------------------------------------- subjects, catalog
\* a Subject record: its id and the state of its career_relevance fields
\* ("absent": no such field, "undefined": field set to undefined, "scores")
Subject(id, cr) == [id |-> id, cr |-> cr]

NullSubject == Subject("null", "absent")

SubjectIds == <<"s1", "s2", "s3", "s4">>

\* the i-th subject of syllabus.json; career_relevance is optional there:
\* the first subject comes without it, the others with it
CatalogSubject(i) == Subject(SubjectIds[i], IF i = 1 THEN "absent" ELSE "scores")

\* a JS value holding a subject list, or an object that is not a list
ListVal(items) == [kind |-> "list", items |-> items]

ObjectVal == [kind |-> "object", items |-> <<>>]

EmptyList == ListVal(<<>>)

\* the outcomes of fetching and decoding /syllabus.json
Catalogs ==
  {[fetch |-> "reject", body |-> "none", items |-> <<>>],
   [fetch |-> "notok", body |-> "none", items |-> <<>>],
   [fetch |-> "ok", body |-> "badjson", items |-> <<>>],
   [fetch |-> "ok", body |-> "nosubjects", items |-> <<>>],
   [fetch |-> "ok", body |-> "object", items |-> <<>>]}
  \cup {[fetch |-> "ok", body |-> "list", items |-> [i \in 1..n |-> CatalogSubject(i)]] :
          n \in {0, MaxSubjects}}

\* ------------------------------------------------------------ occupations
\* occupation strings as sequences of characters; what the user types into the
\* field, which starts empty
TypedOccupations == {<<" ">>, <<"e">>}

\* keys of occupationIcons, e.g. "robotics engineer"
SampleOccupations == {<<"r", " ", "e">>}

RECURSIVE TrimLeft(_)
TrimLeft(o) == IF o # <<>> /\ Head(o) = " " THEN TrimLeft(Tail(o)) ELSE o

RECURSIVE TrimRight(_)
TrimRight(o) ==
  IF o # <<>> /\ o[Len(o)] = " " THEN TrimRight(SubSeq(o, 1, Len(o) - 1)) ELSE o

\* String.prototype.trim
Trim(o) == TrimRight(TrimLeft(o))

\* ------------------------------------------------------------- AI replies
\* outcomes of model.generateContent for a roadmap prompt: a reply text
RoadmapReplies ==
  {<<"{", "n1", "}">>,
   <<"F", "j", "s", "{", "n2", "}", "s", "F">>,
   <<"{", "m", "}">>,
   <<"{", "}">>,
   <<"null">>,
   <<"x">>}

\* outcomes of model.generateContent for a career-relevance prompt
EnrichReplies ==
  {<<"{", "c", "}">>,
   <<"F", "{", "c", "}", "F">>,
   <<"null">>,
   <<"x">>}

\* the call itself failing (network, quota, auth)
Reject == <<"reject">>


\* ----------------------------------------------------------- the history
\* the arguments of a geminiService.generateRoadmap call
Request(occ, sub) == [occupation |-> occ, subjects |-> sub]

NoRequest == Request(<<>>, EmptyList)

\* the record of a step: operation, branch taken, occupation read, the reply
\* that parsed, the AI call issued, the roadmap held when the settled request
\* was started, whether a node was selected when it settled
StepOf(op, res, occ, txt, req, start) ==
  [op |-> op, res |-> res, occ |-> occ, text |-> txt, req |-> req,
   startRoadmap |-> start,
   hadSelection |-> (op = "resolve" /\ selectedNodeId # Null)]

Step(op, res, occ, txt, req) == StepOf(op, res, occ, txt, req, NullVal)

\* the record of a step that neither submits an occupation nor settles a request
Quiet == Step("quiet", "", <<>>, <<>>, NoRequest)

\* ------------------------------------------------------------ DataService
\* lines 33-39: what loadSubjects leaves in this.subjects after response.json(),
\* and whether the try block threw
DecodeCatalog(cat) ==
  CASE cat.body = "badjson" -> [threw |-> TRUE, isLoaded |-> FALSE, subjects |-> EmptyList]
    [] cat.body = "nosubjects" -> [threw |-> TRUE, isLoaded |-> TRUE, subjects |-> EmptyList]
    [] cat.body = "object" -> [threw |-> FALSE, isLoaded |-> TRUE, subjects |-> ObjectVal]
    [] OTHER -> [threw |-> FALSE, isLoaded |-> TRUE, subjects |-> ListVal(cat.items)]

\* await fetch('/syllabus.json') and the response.ok test
DSFetch ==
  /\ dsPc = "fetch"
  /\ IF catalog.fetch = "ok"
     THEN /\ dsPc' = "json"
          /\ UNCHANGED <<dsSubjects, dsIsLoading, dsIsLoaded, loadPromise>>
     ELSE /\ dsSubjects' = EmptyList
          /\ dsIsLoading' = FALSE
          /\ loadPromise' = "resolved"
          /\ dsPc' = "done"
          /\ UNCHANGED dsIsLoaded
  /\ last' = Quiet
  /\ UNCHANGED <<apiKey, catalog, fetchCount, callers, uiVars, loadPc, enriched,
                 inflight, timers, parseVars>>

\* await response.json(), the assignment, catch and finally
DSJson ==
  /\ dsPc = "json"
  /\ LET d == DecodeCatalog(catalog) IN
       /\ dsSubjects' = d.subjects
       /\ dsIsLoaded' = d.isLoaded
  /\ dsIsLoading' = FALSE
  /\ loadPromise' = "resolved"
  /\ dsPc' = "done"
  /\ last' = Quiet
  /\ UNCHANGED <<apiKey, catalog, fetchCount, callers, uiVars, loadPc, enriched,
                 inflight, timers, parseVars>>

\* callers of the store other than the component (getSubjectsByYear, ...)
Callers == {"c1", "c2"}

\* variant: getAllSubjects does not await the load
LoadSettledNoAwait(p) == TRUE

\* getAllSubjects resumes once loadPromise has settled
LoadSettled(p) == p = "resolved"

CallGetAllSubjects(c) ==
  /\ callers[c].pc \in {"idle", "returned"}
  /\ callers' = [callers EXCEPT ![c] = [pc |-> "waiting", got |-> EmptyList,
                                         early |-> (dsPc # "done")]]
  /\ last' = Quiet
  /\ UNCHANGED <<apiKey, catalog, dsVars, uiVars, loadPc, enriched, inflight,
                 timers, parseVars>>

ReturnGetAllSubjects(c) ==
  /\ callers[c].pc = "waiting"
  /\ LoadSettled(loadPromise)
  /\ callers' = [callers EXCEPT ![c] = [pc |-> "returned", got |-> dsSubjects,
                                         early |-> callers[c].early]]
  /\ last' = Quiet
  /\ UNCHANGED <<apiKey, catalog, dsVars, uiVars, loadPc, enriched, inflight,
                 timers, parseVars>>

\* ------------------------------------------------------ the mount effect
\* variant: no catch around the subject, a failed reply leaves the fields undefined
EnrichOneNoCatch(s, out) ==
  LET v == IF out = Reject THEN ParseFail ELSE parseJSONResponse(out) IN
  Subject(s.id, IF v.cr THEN "scores" ELSE "undefined")

\* one subject of enrichSubjectsWithCareerRelevance: the reply parsed, or the copy
EnrichOne(s, out) ==
  LET v == IF out = Reject THEN ParseFail ELSE parseJSONResponse(out) IN
  IF v.kind \in {"fail", "null"} THEN s
  ELSE Subject(s.id, IF v.cr THEN "scores" ELSE "undefined")

\* variant: the flag is reset at the end of the try block, not in a finally
DataLoadingAfterEffectNoFinally(threw) == threw

\* line 257: finally { setIsLoadingData(false) }, whether the catch ran or not
DataLoadingAfterEffect(threw) == FALSE

\* setIsLoadingData(true) and the call of dataService.getAllSubjects()
EffectStart ==
  /\ loadPc = "init"
  /\ isLoadingData' = TRUE
  /\ loadPc' = "awaitSubjects"
  /\ last' = Quiet
  /\ UNCHANGED <<apiKey, catalog, dsVars, callers, dreamOccupation, roadmap,
                 isLoading, error, subjects, selectedSubject, selectedNodeId,
                 enriched, inflight, timers, parseVars>>

\* getAllSubjects has returned: enrich if a key is set, else keep the list
EffectSubjectsLoaded ==
  /\ loadPc = "awaitSubjects"
  /\ LoadSettled(loadPromise)
  /\ IF apiKey /\ dsSubjects.kind = "list" /\ dsSubjects.items # <<>>
     THEN /\ loadPc' = "enrich"
          /\ enriched' = <<>>
          /\ last' = Quiet
          /\ UNCHANGED <<subjects, error, isLoadingData>>
     ELSE /\ loadPc' = "done"
          /\ isLoadingData' = DataLoadingAfterEffect(apiKey /\ dsSubjects.kind # "list")
          /\ UNCHANGED enriched
          /\ IF apiKey /\ dsSubjects.kind # "list"
             THEN /\ error' = ErrLoad
                  /\ last' = Quiet
                  /\ UNCHANGED subjects
             ELSE /\ subjects' = dsSubjects
                  /\ last' = Quiet
                  /\ UNCHANGED error
  /\ UNCHANGED <<apiKey, catalog, dsVars, callers, dreamOccupation, roadmap,
                 isLoading, selectedSubject, selectedNodeId, inflight, timers,
                 parseVars>>

\* one iteration of the enrichment loop; the last one ends the effect
EnrichStep(out) ==
  /\ loadPc = "enrich"
  /\ LET i == Len(enriched) + 1
         e == Append(enriched, EnrichOne(dsSubjects.items[i], out))
     IN /\ enriched' = e
        /\ IF i = Len(dsSubjects.items)
           THEN /\ subjects' = ListVal(e)
                /\ isLoadingData' = DataLoadingAfterEffect(FALSE)
                /\ loadPc' = "done"
           ELSE UNCHANGED <<subjects, isLoadingData, loadPc>>
  /\ last' = Quiet
  /\ UNCHANGED <<apiKey, catalog, dsVars, callers, dreamOccupation, roadmap,
                 isLoading, error, selectedSubject, selectedNodeId, inflight,
                 timers, parseVars>>


\* ------------------------------------------------------- generateRoadmap
\* what a generateRoadmap closure reads from the render that created it
Snap == [occ |-> dreamOccupation, isLoadingData |-> isLoadingData, subjects |-> subjects]

\* variant: the occupation is tested without trim()
BlankOccupationNoTrim(occ) == occ = <<>>

\* line 264: !dreamOccupation.trim()
BlankOccupation(occ) == Trim(occ) = <<>>

\* variant: the data-loading test is missing
MustWaitNever(snap) == FALSE

\* line 265: isLoadingData
MustWait(snap) == snap.isLoadingData

\* line 277: subjects.length === 0 (length of a non-list object is undefined)
NoSubjects(sub) == sub.kind = "list" /\ Len(sub.items) = 0

\* variant: only the presence of nodes is tested, not Array.isArray
ValidRoadmapNoArrayCheck(v) ==
  /\ v.kind \notin {"null", "fail"}
  /\ v.nodes # "absent"

\* line 282: generatedRoadmap && generatedRoadmap.nodes && Array.isArray(nodes)
ValidRoadmap(v) ==
  /\ v.kind \notin {"null", "fail"}
  /\ v.nodes # "absent"
  /\ v.nodes = "list"

\* variant: a new roadmap keeps the node selection
SelectionAfterSuccessKept(sel) == sel

\* lines 286-287: setSelectedSubject(null); setSelectedNodeId(null)
SelectionAfterSuccess(sel) == [subject |-> NullSubject, nodeId |-> Null]

\* lines 263-280: generateRoadmap up to the await of geminiService.generateRoadmap
GenerateRoadmap(snap, op) ==
  IF BlankOccupation(snap.occ)
  THEN /\ last' = Step(op, "blank", snap.occ, <<>>, NoRequest)
       /\ UNCHANGED <<isLoading, error, inflight>>
  ELSE IF MustWait(snap)
  THEN /\ error' = PleaseWait
       /\ last' = Step(op, "wait", snap.occ, <<>>, NoRequest)
       /\ UNCHANGED <<isLoading, inflight>>
  ELSE IF ~apiKey
  THEN /\ isLoading' = FALSE
       /\ error' = ErrNoKey
       /\ last' = Step(op, "nokey", snap.occ, <<>>, NoRequest)
       /\ UNCHANGED inflight
  ELSE IF NoSubjects(snap.subjects)
  THEN /\ isLoading' = FALSE
       /\ error' = ErrNoSubjects
       /\ last' = Step(op, "nosubjects", snap.occ, <<>>, NoRequest)
       /\ UNCHANGED inflight
  ELSE /\ BagCardinality(inflight) < MaxInFlight
       /\ inflight' = inflight (+) SetToBag({roadmap})
       /\ last' = Step(op, "started", snap.occ, <<>>, Request(snap.occ, snap.subjects))
       /\ isLoading' = TRUE
       /\ error' = Null

\* onChange of the occupation input
SetOccupation(o) ==
  /\ dreamOccupation' = o
  /\ last' = Quiet
  /\ UNCHANGED <<apiKey, catalog, dsVars, callers, roadmap, isLoading,
                 isLoadingData, error, subjects, selectedSubject, selectedNodeId,
                 loadPc, enriched, inflight, timers, parseVars>>

\* onKeyPress with Enter: generateRoadmap of the current render
PressEnter ==
  /\ GenerateRoadmap(Snap, "submit")
  /\ UNCHANGED <<apiKey, catalog, dsVars, callers, dreamOccupation, roadmap,
                 isLoadingData, subjects, selectedSubject, selectedNodeId,
                 loadPc, enriched, timers, parseVars>>

\* line 350: the Generate button is enabled
GenerateEnabled ==
  ~(isLoading \/ isLoadingData \/ BlankOccupation(dreamOccupation) \/ ~apiKey)

\* onClick of the Generate button
ClickGenerate ==
  /\ GenerateEnabled
  /\ GenerateRoadmap(Snap, "submit")
  /\ UNCHANGED <<apiKey, catalog, dsVars, callers, dreamOccupation, roadmap,
                 isLoadingData, subjects, selectedSubject, selectedNodeId,
                 loadPc, enriched, timers, parseVars>>

\* the closure a sample button's setTimeout callback holds, with the occupation
\* clicked (history)
SampleClosure(o) ==
  [occ |-> dreamOccupation, isLoadingData |-> isLoadingData, subjects |-> subjects,
   clicked |-> o]

\* lines 401-404: a sample button sets the field and schedules generateRoadmap
\* of the render the click happened in
ClickSample(o) ==
  /\ roadmap = NullVal
  /\ BagCardinality(timers) < MaxTimers
  /\ dreamOccupation' = o
  /\ timers' = timers (+) SetToBag({SampleClosure(o)})
  /\ last' = Quiet
  /\ UNCHANGED <<apiKey, catalog, dsVars, callers, roadmap, isLoading,
                 isLoadingData, error, subjects, selectedSubject, selectedNodeId,
                 loadPc, enriched, inflight, parseVars>>

\* the setTimeout callback runs generateRoadmap with its closure
TimerFire(t) ==
  /\ BagIn(t, timers)
  /\ timers' = timers (-) SetToBag({t})
  /\ GenerateRoadmap(t, "timer")
  /\ UNCHANGED <<apiKey, catalog, dsVars, callers, dreamOccupation, roadmap,
                 isLoadingData, subjects, selectedSubject, selectedNodeId,
                 loadPc, enriched, parseVars>>

\* geminiService.generateRoadmap settles (lines 91-105), then lines 281-297
GenerateResolve(r, out) ==
  /\ BagIn(r, inflight)
  /\ inflight' = inflight (-) SetToBag({r})
  /\ isLoading' = FALSE
  /\ LET v == IF out = Reject THEN ParseFail ELSE parseJSONResponse(out) IN
       IF v = ParseFail
       THEN /\ error' = ErrService
            /\ last' = StepOf("resolve", IF out = Reject THEN "reject" ELSE "parsefail",
                              <<>>, <<>>, NoRequest, r)
            /\ UNCHANGED <<roadmap, selectedSubject, selectedNodeId>>
       ELSE IF ~ValidRoadmap(v)
       THEN /\ error' = ErrInvalid
            /\ last' = StepOf("resolve", "invalid", <<>>, out, NoRequest, r)
            /\ UNCHANGED <<roadmap, selectedSubject, selectedNodeId>>
       ELSE LET sel == SelectionAfterSuccess(
                         [subject |-> selectedSubject, nodeId |-> selectedNodeId])
            IN /\ roadmap' = v
               /\ selectedSubject' = sel.subject
               /\ selectedNodeId' = sel.nodeId
               /\ last' = StepOf("resolve", "success", <<>>, out, NoRequest, r)
               /\ UNCHANGED error
  /\ UNCHANGED <<apiKey, catalog, dsVars, callers, dreamOccupation, isLoadingData,
                 subjects, loadPc, enriched, timers, parseVars>>

\* ------------------------------------------------------- node selection
\* the completed flags of a roadmap's nodes: the prompt asks the AI for false and
\* no code writes the field
Completed(v) == [i \in 1..Len(v.items) |-> FALSE]

Range(f) == {f[i] : i \in DOMAIN f}

\* variant: the first subject is taken, whatever its id
FindSubjectFirst(items, id) ==
  IF items # <<>> THEN items[1] ELSE NullSubject

\* subjects.find(s => s.id === id) || null
FindSubject(items, id) ==
  IF \E i \in 1..Len(items) : items[i].id = id
  THEN items[Min({i \in 1..Len(items) : items[i].id = id})]
  ELSE NullSubject

\* lines 300-304; subjects.find throws when subjects is not a list
handleNodeClick(id) ==
  /\ roadmap.kind = "object"
  /\ roadmap.nodes = "list"
  /\ id \in Range(roadmap.items)
  /\ selectedNodeId' = id
  /\ selectedSubject' = IF subjects.kind = "list"
                        THEN FindSubject(subjects.items, id)
                        ELSE selectedSubject
  /\ last' = Quiet
  /\ UNCHANGED <<apiKey, catalog, dsVars, callers, dreamOccupation, roadmap,
                 isLoading, isLoadingData, error, subjects, loadPc, enriched,
                 inflight, timers, parseVars>>

\* line 423: onClose of the details panel, shown while a subject is selected
ClosePanel ==
  /\ selectedSubject # NullSubject
  /\ selectedSubject' = NullSubject
  /\ selectedNodeId' = Null
  /\ last' = Quiet
  /\ UNCHANGED <<apiKey, catalog, dsVars, callers, dreamOccupation, roadmap,
                 isLoading, isLoadingData, error, subjects, loadPc, enriched,
                 inflight, timers, parseVars>>

\* ------------------------------------------------------ the interpreter
\* one lexeme of an enumerated reply; "S" is a string member holding }```
Lexemes == {"x", "s", "F", "j", "{", "}", "n1", "S", "1"}

RECURSIVE Expand(_)
Expand(t) ==
  IF t = <<>> THEN <<>>
  ELSE (IF Head(t) = "S" THEN <<"k", "q", "}", "F", "q">> ELSE <<Head(t)>>)
       \o Expand(Tail(t))

Texts == {Expand(t) : t \in UNION {[1..n -> Lexemes] : n \in 0..MaxLen}}

\* parseJSONResponse applied to the reply text
Interpret ==
  /\ last.op # "parse"
  /\ parsed' = parseJSONResponse(text)
  /\ last' = Step("parse", "", <<>>, text, NoRequest)
  /\ UNCHANGED <<apiKey, catalog, dsVars, callers, uiVars, loadPc, enriched,
                 inflight, timers, text, pureVars>>

\* ------------------------------------------------------- RoadmapFlowchart
\* most nodes of a roadmap given to the flowchart
MaxNodes == 2

yStep == 120

xStep == 180

yStart == 100

xStart == 100

\* a RoadmapNode: the fields the flowchart reads for its layout and its edges;
\* connects is optional in a reply that passed the nodes-list validation
Node(id, name, year, semester, x, connects) ==
  [id |-> id, name |-> name, year |-> year, semester |-> semester, x |-> x,
   connects |-> connects]

\* node ids of the enumerated roadmaps; "z" is an id no node carries
FlowIds == {"a", "b"}

NodeNames == {"A", "B"}

YearSems == {<<1, 1>>, <<1, 2>>, <<2, 1>>}

\* connects: missing, or a list holding a node id or an unknown id
ConnectsChoices ==
  {[present |-> FALSE, ids |-> <<>>],
   [present |-> TRUE, ids |-> <<"a">>],
   [present |-> TRUE, ids |-> <<"z">>]}

FlowNodes ==
  {Node(id, name, ys[1], ys[2], 0, c) :
     id \in FlowIds, name \in NodeNames, ys \in YearSems, c \in ConnectsChoices}

\* a.name.localeCompare(b.name) on one-letter names
NameRank == [A |-> 1, B |-> 2]

localeCompare(a, b) == NameRank[a] - NameRank[b]

\* lines 15-17: the comparator of the sort
CompareNodes(a, b) ==
  IF a.year # b.year THEN a.year - b.year
  ELSE IF a.semester # b.semester THEN a.semester - b.semester
  ELSE localeCompare(a.name, b.name)

\* n put before the first node that compares greater: a stable insertion
RECURSIVE InsertNode(_, _)
InsertNode(sorted, n) ==
  IF sorted = <<>> THEN <<n>>
  ELSE IF CompareNodes(Head(sorted), n) > 0 THEN <<n>> \o sorted
  ELSE <<Head(sorted)>> \o InsertNode(Tail(sorted), n)

\* [...nodes].sort(comparator): Array.prototype.sort is stable
RECURSIVE SortNodes(_)
SortNodes(nodes) ==
  IF nodes = <<>> THEN <<>>
  ELSE InsertNode(SortNodes(SubSeq(nodes, 1, Len(nodes) - 1)), nodes[Len(nodes)])

sortedNodes(nodes) == SortNodes(nodes)

\* decimal numerals of the years and semesters
Digits == <<"1", "2", "3", "4">>

\* Number(s) of a numeral
Number(s) == CHOOSE i \in 1..Len(Digits) : Digits[i] = s

\* `${node.year}-${node.semester}`
GroupKey(n) == <<Digits[n.year], "-", Digits[n.semester]>>

\* pair.split('-').map(Number)
SplitKey(k) == <<Number(k[1]), Number(k[3])>>

\* groupMap[key]: the nodes of a key, in sorted order
groupMap(sorted, key) == SelectSeq(sorted, LAMBDA n : GroupKey(n) = key)

\* Array.from(new Set(keys)): the keys in order of first occurrence
RECURSIVE UniqueKeys(_)
UniqueKeys(sorted) ==
  IF sorted = <<>> THEN <<>>
  ELSE LET rest == UniqueKeys(SubSeq(sorted, 1, Len(sorted) - 1))
           k == GroupKey(sorted[Len(sorted)])
       IN IF \E i \in 1..Len(rest) : rest[i] = k THEN rest ELSE Append(rest, k)

\* a[0] - b[0] || a[1] - b[1]
ComparePairs(a, b) == IF a[1] # b[1] THEN a[1] - b[1] ELSE a[2] - b[2]

RECURSIVE InsertPair(_, _)
InsertPair(sorted, p) ==
  IF sorted = <<>> THEN <<p>>
  ELSE IF ComparePairs(Head(sorted), p) > 0 THEN <<p>> \o sorted
  ELSE <<Head(sorted)>> \o InsertPair(Tail(sorted), p)

RECURSIVE SortPairs(_)
SortPairs(pairs) ==
  IF pairs = <<>> THEN <<>>
  ELSE InsertPair(SortPairs(SubSeq(pairs, 1, Len(pairs) - 1)), pairs[Len(pairs)])

\* lines 28-32: the (year, semester) pairs present, sorted
allYearSemPairs(sorted) ==
  LET keys == UniqueKeys(sorted) IN
  SortPairs([i \in 1..Len(keys) |-> SplitKey(keys[i])])

\* no entry of nodePositions
NoPosition == [x |-> -1, y |-> -1]

\* lines 41-50: the assignments to nodePositions[node.id], in the order made
RECURSIVE PositionWrites(_, _, _)
PositionWrites(sorted, pairs, rowIdx) ==
  IF rowIdx >= Len(pairs) THEN <<>>
  ELSE LET p == pairs[rowIdx + 1]
           nodes == groupMap(sorted, <<Digits[p[1]], "-", Digits[p[2]]>>)
       IN [colIdx \in 1..Len(nodes) |->
             [id |-> nodes[colIdx].id,
              pos |-> [x |-> xStart + (colIdx - 1) * xStep,
                       y |-> yStart + rowIdx * yStep]]]
          \o PositionWrites(sorted, pairs, rowIdx + 1)

\* nodePositions after the loop: the last assignment made under each id
NodePositionsOf(nodes) ==
  LET sorted == sortedNodes(nodes)
      writes == PositionWrites(sorted, allYearSemPairs(sorted), 0)
  IN [id \in FlowIds |->
        IF \E i \in 1..Len(writes) : writes[i].id = id
        THEN writes[Max({i \in 1..Len(writes) : writes[i].id = id})].pos
        ELSE NoPosition]

\* lines 63-88: the lines of renderConnections; node.connects.map throws a
\* TypeError when connects is missing
Draw(nodes) ==
  LET sorted == sortedNodes(nodes)
      pos == NodePositionsOf(nodes)
  IN IF \E i \in 1..Len(sorted) : ~sorted[i].connects.present
     THEN [status |-> "threw", edges |-> {}]
     ELSE [status |-> "ok",
           edges |-> {[x1 |-> pos[sorted[i].id].x + 60, y1 |-> pos[sorted[i].id].y + 20,
                       x2 |-> pos[t].x + 60, y2 |-> pos[t].y + 20] :
                        <<i, t>> \in {<<j, u>> \in (1..Len(sorted)) \X FlowIds :
                             /\ \E k \in 1..Len(sorted[j].connects.ids) :
                                  sorted[j].connects.ids[k] = u
                             /\ \E m \in 1..Len(sorted) : sorted[m].id = u}}]

NotDrawn == [status |-> "none", edges |-> {}]

\* a render of RoadmapFlowchart with the current roadmap.nodes
Render ==
  /\ flowPc \in {"new", "reordered"}
  /\ nodePositions' = NodePositionsOf(roadmapNodes)
  /\ prevPositions' = nodePositions
  /\ drawn' = Draw(roadmapNodes)
  /\ flowPc' = IF flowPc = "new" THEN "rendered" ELSE "rerendered"
  /\ last' = Quiet
  /\ UNCHANGED <<apiKey, catalog, dsVars, callers, uiVars, loadPc, enriched,
                 inflight, timers, text, parsed, roadmapNodes, filterVars,
                 enrichVars>>

\* the nodes with those at i and i + 1 exchanged (i = 0: none exchanged)
SwapAt(nodes, i) ==
  [j \in 1..Len(nodes) |->
     IF i = 0 THEN nodes[j]
     ELSE IF j = i THEN nodes[i + 1]
     ELSE IF j = i + 1 THEN nodes[i]
     ELSE nodes[j]]

\* the same nodes arrive in another order and with other x values
Reorder(i, x) ==
  /\ flowPc = "rendered"
  /\ i < Len(roadmapNodes)
  /\ roadmapNodes' = [j \in 1..Len(roadmapNodes) |->
                        [SwapAt(roadmapNodes, i)[j] EXCEPT !.x = x]]
  /\ flowPc' = "reordered"
  /\ last' = Quiet
  /\ UNCHANGED <<apiKey, catalog, dsVars, callers, uiVars, loadPc, enriched,
                 inflight, timers, text, parsed, nodePositions, prevPositions,
                 drawn, filterVars, enrichVars>>

\* --------------------------------------- getSubjectsByCareerRelevance
\* most subjects of the loaded list the filter is applied to
MaxFiltered == 2

\* occupation strings over the letters S, E (upper case), s, e, blank, underscore:
\* "Software Engineer" and the key "software_engineer" of OCCUPATIONS
SoftwareEngineer == <<"S", " ", "E">>

software_engineer == <<"s", "_", "e">>

FilterOccupations == {SoftwareEngineer, software_engineer}

\* String.prototype.toLowerCase
toLowerCase(o) ==
  [i \in 1..Len(o) |-> CASE o[i] = "S" -> "s" [] o[i] = "E" -> "e" [] OTHER -> o[i]]

\* scores and thresholds in tenths
Scores == {0, 5, 9}

Thresholds == {0, 5, 7}

\* career_relevance of a subject: missing, or a mapping that holds a score under
\* software_engineer or holds none
Relevances ==
  {[present |-> FALSE, has |-> FALSE, score |-> 0],
   [present |-> TRUE, has |-> FALSE, score |-> 0]}
  \cup {[present |-> TRUE, has |-> TRUE, score |-> sc] : sc \in Scores}

\* the loaded subject lists: the i-th subject has id i
FilterSubjects ==
  UNION {{[i \in 1..n |-> [id |-> i, career_relevance |-> f[i]]] :
            f \in [1..n -> Relevances]} : n \in 0..MaxFiltered}

\* the value subject.career_relevance[key] is read as: undefined is "none"
Lookup(s, key) ==
  IF s.career_relevance.has /\ key = software_engineer
  THEN [defined |-> TRUE, score |-> s.career_relevance.score]
  ELSE [defined |-> FALSE, score |-> 0]

\* line 95: relevance && relevance >= threshold (undefined and 0 are falsy)
Keeps(s, key, threshold) ==
  LET relevance == Lookup(s, key) IN
  relevance.defined /\ relevance.score # 0 /\ relevance.score >= threshold

\* lines 97-98: a.career_relevance[key] || 0
ScoreOrZero(s, key) == LET r == Lookup(s, key) IN IF r.defined THEN r.score ELSE 0

\* s put before the first subject whose score is smaller: a stable insertion,
\* descending
RECURSIVE InsertByRelevance(_, _, _)
InsertByRelevance(sorted, s, key) ==
  IF sorted = <<>> THEN <<s>>
  ELSE IF ScoreOrZero(s, key) - ScoreOrZero(Head(sorted), key) > 0 THEN <<s>> \o sorted
  ELSE <<Head(sorted)>> \o InsertByRelevance(Tail(sorted), s, key)

RECURSIVE SortByRelevance(_, _)
SortByRelevance(list, key) ==
  IF list = <<>> THEN <<>>
  ELSE InsertByRelevance(SortByRelevance(SubSeq(list, 1, Len(list) - 1), key),
                         list[Len(list)], key)

\* lines 91-101; reading a key of a missing career_relevance throws a TypeError,
\* which rejects the returned promise
getSubjectsByCareerRelevance(list, occupation, threshold) ==
  LET key == toLowerCase(occupation) IN
  IF \E i \in 1..Len(list) : ~list[i].career_relevance.present
  THEN [threw |-> TRUE, items |-> <<>>]
  ELSE [threw |-> FALSE,
        items |-> SortByRelevance(SelectSeq(list, LAMBDA s : Keeps(s, key, threshold)), key)]

NoFilterArgs == [subjects |-> <<>>, occupation |-> <<>>, threshold |-> 0]

NoFilterResult == [called |-> FALSE, threw |-> FALSE, items |-> <<>>]

\* a call of getSubjectsByCareerRelevance on the loaded list
Filter ==
  /\ ~filterResult.called
  /\ LET r == getSubjectsByCareerRelevance(filterArgs.subjects, filterArgs.occupation,
                                           filterArgs.threshold)
     IN filterResult' = [called |-> TRUE, threw |-> r.threw, items |-> r.items]
  /\ last' = Quiet
  /\ UNCHANGED <<apiKey, catalog, dsVars, callers, uiVars, loadPc, enriched,
                 inflight, timers, text, parsed, flowVars, filterArgs, enrichVars>>

\* ---------------------------------------------------- enrichment, alone
\* most subjects of an enriched list
MaxEnriched == 2

\* replies to a career-relevance prompt, one of them an object without the fields
PureEnrichReplies == EnrichReplies \cup {<<"{", "}">>}

\* the input lists: the i-th subject has the i-th id, with or without scores
EnrichInputs ==
  UNION {{[i \in 1..n |-> Subject(SubjectIds[i], f[i])] :
            f \in [1..n -> {"absent", "scores"}]} : n \in 0..MaxEnriched}

\* one subject of enrichSubjectsWithCareerRelevanceForOccupation: reading
\* parsed.career_relevance[key] of a reply without the field throws, as does a
\* null reply; the catch pushes the copy
EnrichOneForOccupation(s, out) ==
  LET v == IF out = Reject THEN ParseFail ELSE parseJSONResponse(out) IN
  IF v.kind \in {"fail", "null"} \/ ~v.cr THEN s
  ELSE Subject(s.id, "scores")

NoEnrichArgs == [subjects |-> <<>>, variant |-> "all"]

NoEnrichResult == [out |-> <<>>, calls |-> 0, failed |-> <<>>, done |-> FALSE]

\* the AI call or the parsing of its reply failed
ReplyFailed(out) == out = Reject \/ parseJSONResponse(out) = ParseFail

\* one iteration of the loop of either enrichment function; the return after
\* the last subject
Enrich(out) ==
  /\ ~enrichResult.done
  /\ LET subs == enrichArgs.subjects
         i == Len(enrichResult.out) + 1
     IN IF i > Len(subs)
        THEN enrichResult' = [enrichResult EXCEPT !.done = TRUE]
        ELSE enrichResult' =
               [out |-> Append(enrichResult.out,
                               IF enrichArgs.variant = "all"
                               THEN EnrichOne(subs[i], out)
                               ELSE EnrichOneForOccupation(subs[i], out)),
                calls |-> enrichResult.calls + 1,
                failed |-> Append(enrichResult.failed, ReplyFailed(out)),
                done |-> FALSE]
  /\ last' = Quiet
  /\ UNCHANGED <<apiKey, catalog, dsVars, callers, uiVars, loadPc, enriched,
                 inflight, timers, text, parsed, flowVars, filterVars, enrichArgs>>

\* ------------------------------------------------------- specifications
\* the state after module load and the first render
InitSession ==
  /\ dsSubjects = EmptyList
  /\ dsIsLoading = TRUE
  /\ dsIsLoaded = FALSE
  /\ loadPromise = "pending"
  /\ dsPc = "fetch"
  /\ fetchCount = 1
  /\ callers = [c \in Callers |-> [pc |-> "idle", got |-> EmptyList, early |-> FALSE]]
  /\ dreamOccupation = <<>>
  /\ roadmap = NullVal
  /\ isLoading = FALSE
  /\ isLoadingData = TRUE
  /\ error = Null
  /\ subjects = EmptyList
  /\ selectedSubject = NullSubject
  /\ selectedNodeId = Null
  /\ loadPc = "init"
  /\ enriched = <<>>
  /\ inflight = EmptyBag
  /\ timers = EmptyBag
  /\ last = [op |-> "init", res |-> "", occ |-> <<>>, text |-> <<>>,
             req |-> NoRequest, startRoadmap |-> NullVal, hadSelection |-> FALSE]

\* no flowchart rendered
FlowIdle ==
  /\ roadmapNodes = <<>>
  /\ nodePositions = [id \in FlowIds |-> NoPosition]
  /\ prevPositions = [id \in FlowIds |-> NoPosition]
  /\ drawn = NotDrawn
  /\ flowPc = "new"

\* no filter call made
FilterIdle ==
  /\ filterArgs = NoFilterArgs
  /\ filterResult = NoFilterResult

\* no enrichment function called on its own
EnrichIdle ==
  /\ enrichArgs = NoEnrichArgs
  /\ enrichResult = NoEnrichResult

PureIdle == FlowIdle /\ FilterIdle /\ EnrichIdle

Init ==
  /\ apiKey \in BOOLEAN
  /\ catalog \in Catalogs
  /\ text = <<>>
  /\ parsed = ParseFail
  /\ InitSession
  /\ PureIdle

Next ==
  \/ DSFetch
  \/ DSJson
  \/ EffectStart
  \/ EffectSubjectsLoaded
  \/ \E out \in EnrichReplies \cup {Reject} : EnrichStep(out)
  \/ \E o \in TypedOccupations : SetOccupation(o)
  \/ PressEnter
  \/ ClickGenerate
  \/ \E o \in SampleOccupations : ClickSample(o)
  \/ \E t \in BagToSet(timers) : TimerFire(t)
  \/ \E r \in BagToSet(inflight) : \E out \in RoadmapReplies \cup {Reject} : GenerateResolve(r, out)
  \/ \E id \in {"s1", "s9"} : handleNodeClick(id)
  \/ ClosePanel

Spec == Init /\ [][Next]_vars

\* the store with its callers and the mount effect, without the user
NextStore ==
  \/ DSFetch
  \/ DSJson
  \/ \E c \in Callers : CallGetAllSubjects(c)
  \/ \E c \in Callers : ReturnGetAllSubjects(c)
  \/ EffectStart
  \/ EffectSubjectsLoaded
  \/ \E out \in EnrichReplies \cup {Reject} : EnrichStep(out)

SpecStore == Init /\ [][NextStore]_vars

\* the store and the mount effect when every awaited fetch, decoding and AI call
\* settles and the event loop runs every continuation that is ready
SpecStoreFair ==
  /\ Init
  /\ [][NextStore]_vars
  /\ WF_vars(DSFetch)
  /\ WF_vars(DSJson)
  /\ WF_vars(EffectStart)
  /\ WF_vars(EffectSubjectsLoaded)
  /\ WF_vars(\E out \in EnrichReplies \cup {Reject} : EnrichStep(out))

InitParse ==
  /\ apiKey = TRUE
  /\ catalog = [fetch |-> "ok", body |-> "list", items |-> <<>>]
  /\ text \in Texts
  /\ parsed = ParseFail
  /\ InitSession
  /\ PureIdle

NextParse == Interpret

SpecParse == InitParse /\ [][NextParse]_vars

\* the flowchart given a valid roadmap: any list of nodes
InitFlow ==
  /\ apiKey = TRUE
  /\ catalog = [fetch |-> "ok", body |-> "list", items |-> <<>>]
  /\ text = <<>>
  /\ parsed = ParseFail
  /\ InitSession
  /\ roadmapNodes \in UNION {[1..n -> FlowNodes] : n \in 0..MaxNodes}
  /\ nodePositions = [id \in FlowIds |-> NoPosition]
  /\ prevPositions = [id \in FlowIds |-> NoPosition]
  /\ drawn = NotDrawn
  /\ flowPc = "new"
  /\ FilterIdle
  /\ EnrichIdle

NextFlow ==
  \/ Render
  \/ \E i \in 0..MaxNodes : \E x \in {0, 700} : Reorder(i, x)

SpecFlow == InitFlow /\ [][NextFlow]_vars

\* the store's filter applied to a loaded list
InitFilter ==
  /\ apiKey = TRUE
  /\ catalog = [fetch |-> "ok", body |-> "list", items |-> <<>>]
  /\ text = <<>>
  /\ parsed = ParseFail
  /\ InitSession
  /\ FlowIdle
  /\ EnrichIdle
  /\ filterArgs \in [subjects : FilterSubjects, occupation : FilterOccupations,
                      threshold : Thresholds]
  /\ filterResult = NoFilterResult

NextFilter == Filter

SpecFilter == InitFilter /\ [][NextFilter]_vars

\* an enrichment function applied to a subject list
InitEnrich ==
  /\ apiKey = TRUE
  /\ catalog = [fetch |-> "ok", body |-> "list", items |-> <<>>]
  /\ text = <<>>
  /\ parsed = ParseFail
  /\ InitSession
  /\ FlowIdle
  /\ FilterIdle
  /\ enrichArgs \in [subjects : EnrichInputs, variant : {"all", "occupation"}]
  /\ enrichResult = NoEnrichResult

NextEnrich == \E out \in PureEnrichReplies \cup {Reject} : Enrich(out)

SpecEnrich == InitEnrich /\ [][NextEnrich]_vars


\* ================================================================ claims
GenOps == {"submit", "timer"}

HasSubjects(sub) == sub.kind = "list" /\ Len(sub.items) > 0

\* C1: when a generation request fails (unparseable reply, reply without a
\* nodes list, transport failure, missing credential, empty catalog), the
\* roadmap afterwards is the roadmap held before the request, an error message
\* is set and the session is no longer generating.
C1_FailurePreservesRoadmap ==
  /\ (last.op = "resolve" /\ last.res \in {"reject", "parsefail", "invalid"})
       => (roadmap = last.startRoadmap /\ error \notin {Null, ""} /\ ~isLoading)
  /\ (last.op \in GenOps /\ last.res \in {"nokey", "nosubjects"})
       => (error \notin {Null, ""} /\ ~isLoading)

\* C2: at most one generation request is in flight at any time.
C2_SingleInFlight == BagCardinality(inflight) <= 1

\* C3: while the catalog load (with its enrichment pass) has not completed, no
\* submission starts a generation request: a submission of a non-blank
\* occupation is answered with the please-wait error and the roadmap stays as
\* it was (there is none yet).
C3_NoRequestWhileLoading ==
  loadPc # "done" =>
    /\ inflight = EmptyBag
    /\ roadmap = NullVal
    /\ (last.op \in GenOps /\ Trim(last.occ) # <<>>)
         => (last.res = "wait" /\ error = PleaseWait)

\* a non-blank occupation was submitted during the enrichment pass and blocked
C3_Witness ==
  /\ loadPc = "enrich"
  /\ last.op = "submit"
  /\ last.occ = <<"e">>
  /\ last.res = "wait"
  /\ error = PleaseWait

\* C4: when a generation request succeeds, the roadmap becomes the newly
\* interpreted roadmap and the selected node id and selected subject are
\* cleared, whatever they were.
C4_SuccessReplacesRoadmap ==
  (last.op = "resolve" /\ last.res = "success") =>
    /\ roadmap = parseJSONResponse(last.text)
    /\ selectedNodeId = Null
    /\ selectedSubject = NullSubject

\* a request started while a roadmap was displayed succeeded with a different
\* roadmap while a node was selected
C4_Witness ==
  /\ last.op = "resolve"
  /\ last.res = "success"
  /\ last.hadSelection
  /\ last.startRoadmap # NullVal
  /\ roadmap # last.startRoadmap

\* C5: a submission whose trimmed occupation is empty starts no request and
\* changes no session state; a submission made while the session holds no
\* subject starts no request and sets an error; a request is started only for
\* a non-blank occupation and a non-empty subject list.
C5_NoCallForBlankOrEmpty ==
  [][last'.op \in GenOps =>
       /\ Trim(last'.occ) = <<>> => UNCHANGED <<uiVars, inflight>>
       /\ (Trim(last'.occ) # <<>> /\ ~HasSubjects(subjects))
            => (inflight' = inflight /\ error' \notin {Null, ""})
       /\ inflight' # inflight
            => (Trim(last'.occ) # <<>> /\ HasSubjects(subjects)
                /\ HasSubjects(last'.req.subjects))]_vars

\* a whitespace-only occupation was submitted when nothing else stood in the
\* way of a request
C5_Witness ==
  /\ last.op = "submit"
  /\ last.res = "blank"
  /\ last.occ = <<" ">>
  /\ apiKey
  /\ loadPc = "done"
  /\ HasSubjects(subjects)

\* C6: with no API key, no user action makes the session generate or
\* produces a generation error.
C6_NoKeyDisablesGeneration ==
  ~apiKey =>
    /\ ~isLoading
    /\ inflight = EmptyBag
    /\ error \notin {ErrNoKey, ErrNoSubjects, ErrService, ErrInvalid}

\* C7: the held roadmap is absent or an object whose nodes field is a list; a
\* reply that parses but has no nodes list is an invalid response and does not
\* become the roadmap.
C7_RoadmapHasNodeList ==
  /\ roadmap = NullVal \/ (roadmap.kind = "object" /\ roadmap.nodes = "list")
  /\ (last.op = "resolve" /\ last.text # <<>>) =>
       LET v == parseJSONResponse(last.text) IN
       ~(v.kind = "object" /\ v.nodes = "list")
         => (last.res = "invalid" /\ error = ErrInvalid)

\* the reply {"nodes":"text"} arrived while a roadmap was displayed
C7_Witness ==
  /\ last.op = "resolve"
  /\ last.res = "invalid"
  /\ last.text = <<"{", "m", "}">>
  /\ roadmap # NullVal

\* C8 as claimed: the strategies fall through, so a fence whose content does
\* not parse leaves the result to the brace span.
C8_FallThrough ==
  last.op = "parse" =>
    LET whole == JSONparse(text)
        fence == IF HasFence(text) THEN JSONparse(FenceGroup(text)) ELSE ParseFail
        span == IF HasObjectSpan(text) THEN JSONparse(ObjectSpan(text)) ELSE ParseFail
    IN parsed = IF whole # ParseFail THEN whole
                ELSE IF fence # ParseFail THEN fence
                ELSE span

\* C8 amended: the whole text if it parses; else, if a fence exists, the parse of
\* its content, failed or not; else, if a brace span exists, the parse of the span
\* from the first opening to the last closing brace; else a parse failure.
C8_OrderedStrategies ==
  last.op = "parse" =>
    /\ JSONparse(text) # ParseFail => parsed = JSONparse(text)
    /\ (JSONparse(text) = ParseFail /\ HasFence(text))
         => parsed = JSONparse(FenceGroup(text))
    /\ (JSONparse(text) = ParseFail /\ ~HasFence(text) /\ HasObjectSpan(text))
         => parsed = JSONparse(ObjectSpan(text))
    /\ (JSONparse(text) = ParseFail /\ ~HasFence(text) /\ ~HasObjectSpan(text))
         => parsed = ParseFail

\* a fence whose content does not parse, in a text whose brace span parses:
\* the result is a parse failure
C8_Witness ==
  /\ last.op = "parse"
  /\ JSONparse(text) = ParseFail
  /\ HasFence(text)
  /\ JSONparse(FenceGroup(text)) = ParseFail
  /\ HasObjectSpan(text)
  /\ JSONparse(ObjectSpan(text)) # ParseFail
  /\ parsed = ParseFail

\* C9: the source is fetched at most once per store, and every caller that
\* awaited, whenever it called, received the subject list the single load left.
C9_SingleLoad ==
  /\ fetchCount <= 1
  /\ \A c \in Callers :
       callers[c].pc = "returned" =>
         /\ dsPc = "done"
         /\ callers[c].got = dsSubjects
         /\ catalog.body = "list" => callers[c].got = ListVal(catalog.items)
  /\ loadPc \in {"enrich", "done"} => dsPc = "done"

\* a caller from before the end of the load and a caller from after it both
\* hold the loaded subjects
C9_Witness ==
  /\ \E c \in Callers : callers[c].pc = "returned" /\ callers[c].early
  /\ \E c \in Callers : callers[c].pc = "returned" /\ ~callers[c].early
  /\ \A c \in Callers : HasSubjects(callers[c].got)
  /\ loadPc = "done"

\* the catalog source is unreachable, answers with a non-OK status, or its
\* content is malformed
CatalogBroken ==
  catalog.fetch # "ok" \/ catalog.body \in {"badjson", "nosubjects", "object"}

\* C10: when the source is unreachable, not OK or malformed, the load ends
\* with the store and the session holding an empty list and with the load
\* error shown to the user.
C10_LoadFailureSurfaced ==
  (loadPc = "done" /\ CatalogBroken) =>
    /\ dsSubjects = EmptyList
    /\ subjects = EmptyList
    /\ error = ErrLoad

\* the nodes of the (year, semester) group of n
SameGroup(nodes, n) ==
  {j \in 1..Len(nodes) : nodes[j].year = n.year /\ nodes[j].semester = n.semester}

\* the rank of n's (year, semester) among the pairs present
RowOf(nodes, n) ==
  Cardinality({<<nodes[j].year, nodes[j].semester>> : j \in
     {k \in 1..Len(nodes) :
        \/ nodes[k].year < n.year
        \/ nodes[k].year = n.year /\ nodes[k].semester < n.semester}})

\* C11: every node of a rendered roadmap, ids unique or not, is positioned at
\* y = 100 + row*120 with row the rank of its (year, semester) group, and at
\* x = 100 + column*180 with column its rank by name within its group; so a node
\* of an earlier group has a strictly smaller y than a node of a later one, and
\* within a group x grows with the name.
C11_LayoutGrid ==
  flowPc # "new" =>
    \A i \in 1..Len(roadmapNodes) :
      LET n == roadmapNodes[i]
          p == nodePositions[n.id]
          below == {j \in SameGroup(roadmapNodes, n) :
                      NameRank[roadmapNodes[j].name] < NameRank[n.name]}
          upto == {j \in SameGroup(roadmapNodes, n) :
                     NameRank[roadmapNodes[j].name] <= NameRank[n.name]}
      IN /\ p.y = 100 + RowOf(roadmapNodes, n) * 120
         /\ \E column \in Cardinality(below)..(Cardinality(upto) - 1) :
              p.x = 100 + column * 180
         /\ \A j \in 1..Len(roadmapNodes) :
              LET m == roadmapNodes[j]
                  q == nodePositions[m.id]
              IN /\ CompareNodes(m, n) < 0 /\ j \notin SameGroup(roadmapNodes, n)
                      => q.y < p.y
                 /\ j \in below => q.x < p.x

\* C12: the id-to-position mapping is the same for the same nodes in another
\* order and with other x values, and for a second computation.
C12_LayoutOrderIndependent ==
  flowPc = "rerendered" => nodePositions = prevPositions

\* C16: a roadmap that passed the nodes-list validation, its nodes lacking
\* optional fields or not, is laid out and drawn with its edges without an
\* error thrown into the render.
C16_NoRenderFailure ==
  flowPc # "new" => drawn.status = "ok"

\* the key the occupation stands for: lower case, blanks as underscores
OccupationKey(o) ==
  [i \in 1..Len(o) |-> IF toLowerCase(o)[i] = " " THEN "_" ELSE toLowerCase(o)[i]]

\* C13: the filter returns exactly the loaded subjects with a defined score
\* >= threshold under the occupation's key (software_engineer for "Software
\* Engineer"), by descending score, ties in catalog order; a subject without
\* the score or without any mapping is left out and raises no error.
C13_FilterByCareerRelevance ==
  filterResult.called =>
    LET subs == filterArgs.subjects
        key == OccupationKey(filterArgs.occupation)
        items == filterResult.items
        want == {i \in 1..Len(subs) :
                   /\ subs[i].career_relevance.present
                   /\ subs[i].career_relevance.has
                   /\ key = software_engineer
                   /\ subs[i].career_relevance.score >= filterArgs.threshold}
    IN /\ ~filterResult.threw
       /\ Len(items) = Cardinality(want)
       /\ {items[k].id : k \in 1..Len(items)} = want
       /\ \A k, l \in 1..Len(items) :
            k < l =>
              \/ items[k].career_relevance.score > items[l].career_relevance.score
              \/ /\ items[k].career_relevance.score = items[l].career_relevance.score
                 /\ items[k].id < items[l].id

\* C14: each subject whose AI call or reply parsing failed is in the output as
\* its original record, an AI call is made for every subject, those after a
\* failed one included, and the enrichment returns a record for every subject.
C14_EnrichmentIsolatesFailures ==
  /\ enrichResult.calls = Len(enrichResult.out)
  /\ Len(enrichResult.failed) = Len(enrichResult.out)
  /\ Len(enrichResult.out) <= Len(enrichArgs.subjects)
  /\ \A i \in 1..Len(enrichResult.out) :
       enrichResult.failed[i] => enrichResult.out[i] = enrichArgs.subjects[i]
  /\ enrichResult.done => enrichResult.calls = Len(enrichArgs.subjects)

\* the first subject's call failed, the second subject was enriched, and the
\* enrichment returned
C14_Witness ==
  /\ enrichResult.done
  /\ Len(enrichResult.out) = 2
  /\ enrichResult.failed[1]
  /\ ~enrichResult.failed[2]
  /\ enrichResult.out[1] = enrichArgs.subjects[1]
  /\ enrichResult.out[2] # enrichArgs.subjects[2]

\* C20: the output of an enrichment has the ids of the input in the same order,
\* and a subject that had scores still has them.
C20_EnrichmentOnlyAdds ==
  enrichResult.done =>
    /\ Len(enrichResult.out) = Len(enrichArgs.subjects)
    /\ \A i \in 1..Len(enrichResult.out) :
         /\ enrichResult.out[i].id = enrichArgs.subjects[i].id
         /\ enrichArgs.subjects[i].cr = "scores" => enrichResult.out[i].cr = "scores"

\* C15: toggling completed on node N of the held roadmap, by the click on N that
\* is the session's node interaction, yields a roadmap in which N's completed flag
\* differs and nothing else does.
C15_ToggleCompleted ==
  [][\A id \in {"s1", "s9"} :
       handleNodeClick(id) =>
         /\ roadmap'.items = roadmap.items
         /\ \A i \in 1..Len(roadmap.items) :
              Completed(roadmap')[i] = (IF roadmap.items[i] = id
                                        THEN ~Completed(roadmap)[i]
                                        ELSE Completed(roadmap)[i])]_vars

\* C17: the session eventually has its data-loading flag false, whatever the
\* load and the enrichment calls did, and from then on keeps it false.
C17_LoadingEndsReady == <>[](~isLoadingData)

\* the load ended Ready after the only subject's enrichment call failed
C17_Witness ==
  /\ loadPc = "done"
  /\ ~isLoadingData
  /\ apiKey
  /\ HasSubjects(dsSubjects)
  /\ subjects = dsSubjects

\* C18: the callback of a sample click made with the catalog loaded and not
\* empty, a key configured and no request in flight issues a request for the
\* occupation clicked, whatever the field held at the click.  No request in
\* flight at the click is taken in its strongest form: up to the callback no
\* request was ever started (none is in flight, none left a roadmap or an error).
C18_SampleClickGenerates ==
  [][\A t \in BagToSet(timers) :
       (/\ TimerFire(t)
        /\ apiKey
        /\ inflight = EmptyBag
        /\ roadmap = NullVal
        /\ error = Null
        /\ ~t.isLoadingData
        /\ HasSubjects(t.subjects))
         => (/\ last'.res = "started"
             /\ last'.req.occupation = t.clicked)]_vars

\* C19: the selected node id is null or the id of a node of the held roadmap,
\* and the selected subject is null or the subject of that id in the session's
\* list, null when there is none.
C19_SelectionConsistent ==
  /\ selectedNodeId # Null =>
       /\ roadmap.kind = "object"
       /\ roadmap.nodes = "list"
       /\ selectedNodeId \in Range(roadmap.items)
       /\ subjects.kind = "list"
       /\ selectedSubject = (IF \E i \in 1..Len(subjects.items) :
                                   subjects.items[i].id = selectedNodeId
                             THEN subjects.items[CHOOSE i \in 1..Len(subjects.items) :
                                                   subjects.items[i].id = selectedNodeId]
                             ELSE NullSubject)
  /\ selectedNodeId = Null => selectedSubject = NullSubject

\* a node without a subject is selected, after a request failed while a node
\* was selected
C19_Witness ==
  /\ selectedNodeId = "s9"
  /\ selectedSubject = NullSubject
  /\ HasSubjects(subjects)
  /\ last.op = "resolve"
  /\ last.res \in {"reject", "parsefail", "invalid"}
  /\ last.hadSelection

====
